---- MODULE Spec2Model ----
(***************************************************************************)
(* Model of the weather-workstation backend (src/backend.py): the serial   *)
(* reader thread, the data processor thread, the MQTT client with its      *)
(* network-thread callbacks, the CSV store and the shutdown handler.       *)
(*                                                                         *)
(* Conventions                                                             *)
(*  - engineering values are integers in hundredths (34.21 is 3421);       *)
(*  - a JSON value is a record [t, v]: t is the JSON/Python type and v the *)
(*    integer it carries (0 when it carries none);                         *)
(*  - a line of the serial link is a sequence of tokens, so that           *)
(*    startswith/endswith and json.loads are computed, not assumed;        *)
(*  - Python None is the value None below, outside every numeric range;    *)
(*  - enq, deq and the fields src/latest of a row are history (ghost)      *)
(*    values: they record what happened and never influence a step.        *)
(***************************************************************************)
EXTENDS Integers, Sequences, FiniteSets, TLC

VARIABLES
    srcPc,        \* serial_reader thread: "init", "open", "read", "done"
    procPc,       \* data_processor thread position
    shutPc,       \* signal handler: "running", "stopping", "exited"
    netLoop,      \* paho network thread running (loop_start .. loop_stop)
    connected,    \* MQTTClient.connected
    data_queue,   \* queue.Queue(): sequence of entries, oldest first
    raw,          \* data_processor local: the entry returned by get()
    calibrated,   \* data_processor local: result of convert_values(raw)
    procErr,      \* exception that ended the data_processor thread, or "none"
    csv,          \* CSV_FILE: [exists, rows]
    cycleLog,     \* side effects of the current processing cycle, in order
    ensureCalls,  \* history: number of ensure_csv calls so far
    enq,          \* history: entries put on data_queue, in order
    deq,          \* history: entries got from data_queue, in order
    skipped,      \* history: serial_reader has read a line and not enqueued it
    \* the calibration functions applied to chosen inputs
    calSnap,      \* the raw snapshot convert_values is applied to
    calChan,      \* the channel of calSnap that was set last
    calOut,       \* calibrate(calSnap[calChan])
    calReading,   \* convert_values(calSnap)
    \* the simulated pipeline (src/tempCodeRunnerFile.py)
    simMain,      \* main thread: "import", "loaded", "running", "failed"
    simCsv,       \* CSV_FILE: [exists, rows]
    simRdPc,      \* sensor_reader thread: "off", "read", "put", "sleep"
    simIdx,       \* sensor_reader: sensors read so far in this snapshot
    simTry,       \* Sensor.read: iterations of its for loop completed
    simSnap,      \* sensor_reader local: the snapshot being built
    simQueue,     \* data_queue: sequence of (timestamp, snapshot) entries
    simEnq,       \* history: entries put on data_queue, in order
    simProcPc,    \* data_processor thread position
    simBatch,     \* data_processor local: batch
    simVerdicts,  \* the statuses printed by the last console report
    simPublished, \* payloads handed to client.publish, in order
    simDropped    \* history: timestamps dequeued and not the last of a batch

calVars == <<calSnap, calChan, calOut, calReading>>

simVars == <<simMain, simCsv, simRdPc, simIdx, simTry, simSnap, simQueue,
             simEnq, simProcPc, simBatch, simVerdicts, simPublished,
             simDropped>>

vars == <<srcPc, procPc, shutPc, netLoop, connected, data_queue, raw,
          calibrated, procErr, csv, cycleLog, ensureCalls, enq, deq,
          skipped, calVars, simVars>>

-----------------------------------------------------------------------------
(* Bounds *)

MaxEnq == 2        \* snapshots the reader enqueues in one run
MaxRows == 4       \* data rows appended in the store-only specification
MaxEnsure == 3     \* ensure_csv calls in the store-only specification
RawMargin == 3     \* raw integers range over -RawMargin .. 1023 + RawMargin
MaxSimEnq == 3     \* snapshots the simulated reader enqueues in one run

-----------------------------------------------------------------------------
(* Python values *)

None == -1

IntV(n)    == [t |-> "int", v |-> n]
FloatV(h)  == [t |-> "float", v |-> h]       \* h in hundredths
NumStrV(n) == [t |-> "numstr", v |-> n]      \* a string such as "12"
StrV       == [t |-> "str", v |-> 0]         \* a non-numeric string
NullV      == [t |-> "null", v |-> 0]        \* JSON null

\* truncation toward zero of h hundredths, as int(float) does
Trunc(h) == IF h >= 0 THEN h \div 100 ELSE -((-h) \div 100)

\* int(raw): [ok, r]; ok = FALSE stands for ValueError / TypeError
py_int(x) ==
    CASE x.t = "int"    -> [ok |-> TRUE, r |-> x.v]
      [] x.t = "numstr" -> [ok |-> TRUE, r |-> x.v]
      [] x.t = "float"  -> [ok |-> TRUE, r |-> Trunc(x.v)]
      [] OTHER          -> [ok |-> FALSE, r |-> 0]

-----------------------------------------------------------------------------
(* Calibration: calibrate and convert_values *)

ADC_MAX == 1023

\* a calibrate without the upper clamp
calibrate_no_upper_clamp(x) ==
    LET i == py_int(x) IN
    IF ~i.ok THEN None ELSE IF i.r < 0 THEN 0 ELSE i.r

calibrate(x) ==
    LET i == py_int(x) IN
    IF ~i.ok THEN None
    ELSE IF i.r < 0 THEN 0
    ELSE IF i.r > ADC_MAX THEN ADC_MAX
    ELSE i.r

\* round((r / 1023) * max, 2) in hundredths.  r*max*100/1023 is never at a
\* half (1023 = 3*11*31 and no scale makes 2*r*max*100/1023 an odd
\* integer for 0 <= r <= 1023), so rounding is to the nearest hundredth.
Scale_truncating(r, max) == (r * max * 100) \div ADC_MAX

Scale(r, max) == (2 * r * max * 100 + ADC_MAX) \div (2 * ADC_MAX)

Channels == {"oxygen", "uv", "pressure", "solar", "temp_humidity", "co2",
             "air_quality"}

Quantities == {"Temperature", "Humidity", "CO2", "Oxygen", "UV Index",
               "Solar Radiation", "Air Quality", "GSR",
               "Atmospheric Pressure"}

\* a table that computes GSR from a channel of its own
ChannelOf_gsr_apart(q) ==
    CASE q = "Temperature"          -> "temp_humidity"
      [] q = "Humidity"             -> "temp_humidity"
      [] q = "CO2"                  -> "co2"
      [] q = "Oxygen"               -> "oxygen"
      [] q = "UV Index"             -> "uv"
      [] q = "Solar Radiation"      -> "solar"
      [] q = "Air Quality"          -> "air_quality"
      [] q = "GSR"                  -> "uv"
      [] q = "Atmospheric Pressure" -> "pressure"

\* the raw channel each quantity is computed from
ChannelOf(q) ==
    CASE q = "Temperature"          -> "temp_humidity"
      [] q = "Humidity"             -> "temp_humidity"
      [] q = "CO2"                  -> "co2"
      [] q = "Oxygen"               -> "oxygen"
      [] q = "UV Index"             -> "uv"
      [] q = "Solar Radiation"      -> "solar"
      [] q = "Air Quality"          -> "air_quality"
      [] q = "GSR"                  -> "solar"
      [] q = "Atmospheric Pressure" -> "pressure"

\* the full scale of each quantity
ScaleOf(q) ==
    CASE q = "Temperature"          -> 50
      [] q = "Humidity"             -> 100
      [] q = "CO2"                  -> 2000
      [] q = "Oxygen"               -> 21
      [] q = "UV Index"             -> 11
      [] q = "Solar Radiation"      -> 1200
      [] q = "Air Quality"          -> 500
      [] q = "GSR"                  -> 100
      [] q = "Atmospheric Pressure" -> 1100

NoVals == [q \in Quantities |-> 0]

\* convert_values(data): [exc, vals].  data["c"] on a missing key raises
\* KeyError; arithmetic on a None returned by calibrate raises TypeError.
convert_values(data) ==
    IF \E c \in Channels : c \notin DOMAIN data
    THEN [exc |-> "KeyError", vals |-> NoVals]
    ELSE LET cal == [c \in Channels |-> calibrate(data[c])] IN
         IF \E c \in Channels : cal[c] = None
         THEN [exc |-> "TypeError", vals |-> NoVals]
         ELSE [exc |-> "none",
               vals |-> [q \in Quantities |->
                            Scale(cal[ChannelOf(q)], ScaleOf(q))]]

-----------------------------------------------------------------------------
(* Lines of the serial link and json.loads *)

Sym(s)     == [k |-> s, t |-> "sym", v |-> 0]
Pair(c, x) == [k |-> c, t |-> x.t, v |-> x.v]

ChannelOrder == <<"oxygen", "uv", "pressure", "solar", "temp_humidity",
                  "co2", "air_quality">>

\* the line  {"oxygen": s[1], "uv": s[2], ...}
ObjectLine(s) ==
    <<Sym("{")>> \o [i \in 1..Len(s) |-> Pair(ChannelOrder[i], s[i])]
                 \o <<Sym("}")>>

SnapA == <<IntV(512), IntV(93), IntV(465), IntV(850), IntV(700), IntV(300),
           IntV(100)>>
SnapB == <<IntV(-5), IntV(2000), IntV(1023), IntV(0), IntV(341), IntV(93),
           FloatV(10250)>>
SnapStr == <<NullV, NumStrV(93), IntV(465), IntV(850), IntV(700), StrV,
             IntV(100)>>

\* what readline() can return, after decode and strip
Lines == { <<>>,                                      \* timeout: empty line
           <<Sym("junk")>>,                            \* no brackets
           <<Sym("{"), Sym("junk"), Sym("}")>>,        \* brackets, not JSON
           <<Sym("{"), Sym("}")>>,                     \* the empty object
           ObjectLine(SnapA),
           ObjectLine(SnapB),
           ObjectLine(SnapStr) }

startswith_brace(line) == Len(line) > 0 /\ line[1].k = "{" /\ line[1].t = "sym"
endswith_brace(line) ==
    Len(line) > 0 /\ line[Len(line)].k = "}" /\ line[Len(line)].t = "sym"

EmptyDict == [c \in {} |-> NullV]

\* json.loads(line): [exc, val]; val is the mapping, the last pair of a key
\* winning.
json_loads(line) ==
    IF Len(line) < 2 \/ ~startswith_brace(line) \/ ~endswith_brace(line)
       \/ \E i \in 2..(Len(line) - 1) : line[i].t = "sym"
    THEN [exc |-> "JSONDecodeError", val |-> EmptyDict]
    ELSE LET idx == 2..(Len(line) - 1)
             lastOf(c) == CHOOSE i \in idx :
                              /\ line[i].k = c
                              /\ \A j \in idx : line[j].k = c => j <= i
         IN [exc |-> "none",
             val |-> [c \in {line[i].k : i \in idx} |->
                         [t |-> line[lastOf(c)].t, v |-> line[lastOf(c)].v]]]

-----------------------------------------------------------------------------
(* data_queue: queue.Queue() with no maxsize *)

queue_put(q, e) == Append(q, e)

\* an empty() that never reports an empty queue
queue_never_empty(q) == FALSE

queue_empty(q)  == q = <<>>

\* a get() that hands out the newest entry
queue_get_newest(q) == [item |-> q[Len(q)], rest |-> SubSeq(q, 1, Len(q) - 1)]

\* get(): [item, rest], the oldest entry and what stays queued
queue_get(q) == [item |-> Head(q), rest |-> Tail(q)]

-----------------------------------------------------------------------------
(* The CSV store: ensure_csv and write_csv *)

\* the header row: "timestamp" and the nine quantity names
HeaderRow == [kind |-> "header", src |-> 0, latest |-> 0, vals |-> NoVals]

\* a data row; its timestamp cell (datetime.utcnow()) is not modelled.
\* src and latest are history: the entry the row was computed from and the
\* newest entry enqueued when that entry was dequeued (0: an earlier run).
DataRow(vals, src, latest) ==
    [kind |-> "data", src |-> src, latest |-> latest, vals |-> vals]

NoFile == [exists |-> FALSE, rows |-> <<>>]

\* an ensure_csv that writes nothing
ensure_csv_skipped(f) == f

\* an ensure_csv without the os.path.exists test: open(.., "w") truncates
ensure_csv_unconditional(f) == [exists |-> TRUE, rows |-> <<HeaderRow>>]

ensure_csv(f) ==
    IF ~f.exists THEN [exists |-> TRUE, rows |-> <<HeaderRow>>] ELSE f

\* open(CSV_FILE, "a") creates the file when it is missing
write_csv(f, row) == [exists |-> TRUE, rows |-> Append(f.rows, row)]

\* the store a run can find: none, or the one an earlier run left
OldRow == DataRow(convert_values(json_loads(ObjectLine(SnapA)).val).vals, 0, 0)
InitialStores == {NoFile, [exists |-> TRUE, rows |-> <<HeaderRow, OldRow>>]}

-----------------------------------------------------------------------------
(* MQTTClient *)

\* an _on_connect that ignores rc
on_connect_any_rc(rc) == TRUE

\* _on_connect: self.connected = (rc == 0)
on_connect(rc) == rc = 0

\* _on_disconnect: self.connected = False
on_disconnect == FALSE

\* publish: the test that decides between client.publish and the warning
publish_sends(flag) == flag

\* return codes a CONNACK can carry: accepted, not authorised
ConnackCodes == {0, 5}

-----------------------------------------------------------------------------
(* Initial state: the module has been imported; __main__ has not run yet *)

NoEntry == [id |-> 0, latest |-> 0, data |-> EmptyDict]

\* the simulated pipeline has not been started
SimIdle ==
    /\ simMain = "import"
    /\ simCsv = NoFile
    /\ simRdPc = "off"
    /\ simIdx = 0
    /\ simTry = 0
    /\ simSnap = EmptyDict
    /\ simQueue = <<>>
    /\ simEnq = <<>>
    /\ simProcPc = "off"
    /\ simBatch = <<>>
    /\ simVerdicts = EmptyDict
    /\ simPublished = <<>>
    /\ simDropped = {}

\* the calibration functions have been applied to the snapshot A
BaseSnap == json_loads(ObjectLine(SnapA)).val

CalIdle ==
    /\ calSnap = BaseSnap
    /\ calChan = "solar"
    /\ calOut = calibrate(BaseSnap["solar"])
    /\ calReading = convert_values(BaseSnap)

Init ==
    /\ srcPc = "init"
    /\ procPc = "init"
    /\ shutPc = "running"
    /\ netLoop = FALSE
    /\ connected = FALSE
    /\ data_queue = <<>>
    /\ raw = NoEntry
    /\ calibrated = NoVals
    /\ procErr = "none"
    /\ csv \in InitialStores
    /\ cycleLog = <<>>
    /\ ensureCalls = 0
    /\ enq = <<>>
    /\ deq = <<>>
    /\ skipped = FALSE
    /\ CalIdle
    /\ SimIdle

\* os._exit(0) has not been executed
Alive == shutPc # "exited"

Effect(ev, out) == [ev |-> ev, out |-> out, conn |-> connected]

-----------------------------------------------------------------------------
(* __main__ *)

\* mqtt_client.start() (connect may raise: caught and logged, the network
\* loop is then not started), then both threads are started.  The signal
\* handler runs on the main thread, so __main__ does not advance once the
\* handler has begun.
MainStart ==
    /\ shutPc = "running"
    /\ srcPc = "init"
    /\ \E ok \in BOOLEAN : netLoop' = ok
    /\ srcPc' = "open"
    /\ procPc' = "start"
    /\ UNCHANGED <<skipped, calVars, simVars, shutPc, connected, data_queue, raw, calibrated, procErr,
                   csv, cycleLog, ensureCalls, enq, deq>>

-----------------------------------------------------------------------------
(* Callbacks on the paho network thread *)

OnConnect(rc) ==
    /\ Alive
    /\ netLoop
    /\ connected' = on_connect(rc)
    /\ UNCHANGED <<skipped, calVars, simVars, srcPc, procPc, shutPc, netLoop, data_queue, raw,
                   calibrated, procErr, csv, cycleLog, ensureCalls, enq, deq>>

OnDisconnect ==
    /\ Alive
    /\ netLoop
    /\ connected' = on_disconnect
    /\ UNCHANGED <<skipped, calVars, simVars, srcPc, procPc, shutPc, netLoop, data_queue, raw,
                   calibrated, procErr, csv, cycleLog, ensureCalls, enq, deq>>

-----------------------------------------------------------------------------
(* serial_reader *)

\* serial.Serial(...): on an exception the thread returns
SerialOpen ==
    /\ Alive
    /\ srcPc = "open"
    /\ \E ok \in BOOLEAN : srcPc' = IF ok THEN "read" ELSE "done"
    /\ UNCHANGED <<skipped, calVars, simVars, procPc, shutPc, netLoop, connected, data_queue, raw,
                   calibrated, procErr, csv, cycleLog, ensureCalls, enq, deq>>

\* a reader that puts the result of json.loads even when it raised
accepted_unparsed(line) ==
    IF line = <<>> THEN {}
    ELSE IF ~startswith_brace(line) \/ ~endswith_brace(line) THEN {}
    ELSE {json_loads(line).val}

\* the entries the reader puts for a line: none when the line is empty, has
\* no brackets, or json.loads raises (caught by the loop's except)
accepted(line) ==
    IF line = <<>> THEN {}
    ELSE IF ~startswith_brace(line) \/ ~endswith_brace(line) THEN {}
    ELSE LET p == json_loads(line) IN
         IF p.exc # "none" THEN {} ELSE {p.val}

\* one iteration of the while loop, readline() returning line
SerialRead(line) ==
    /\ Alive
    /\ srcPc = "read"
    /\ IF accepted(line) = {}
       THEN /\ skipped' = TRUE
            /\ UNCHANGED <<data_queue, enq>>
       ELSE LET e == [id |-> Len(enq) + 1, latest |-> 0,
                      data |-> CHOOSE d \in accepted(line) : TRUE]
            IN /\ Len(enq) < MaxEnq
               /\ data_queue' = queue_put(data_queue, e)
               /\ enq' = Append(enq, e)
               /\ UNCHANGED skipped
    /\ UNCHANGED <<calVars, simVars, srcPc, procPc, shutPc, netLoop,
                   connected, raw, calibrated, procErr, csv, cycleLog,
                   ensureCalls, deq>>

SerialReadLine == \E line \in Lines : SerialRead(line)

-----------------------------------------------------------------------------
(* data_processor *)

ProcEnsureCsv ==
    /\ Alive
    /\ procPc = "start"
    /\ csv' = ensure_csv(csv)
    /\ ensureCalls' = ensureCalls + 1
    /\ procPc' = "poll"
    /\ UNCHANGED <<skipped, calVars, simVars, srcPc, shutPc, netLoop, connected, data_queue, raw,
                   calibrated, procErr, cycleLog, enq, deq>>

\* if data_queue.empty(): sleep(0.05); continue
ProcPoll ==
    /\ Alive
    /\ procPc = "poll"
    /\ procPc' = IF queue_empty(data_queue) THEN "idle" ELSE "get"
    /\ UNCHANGED <<skipped, calVars, simVars, srcPc, shutPc, netLoop, connected, data_queue, raw,
                   calibrated, procErr, csv, cycleLog, ensureCalls, enq, deq>>

ProcIdle ==
    /\ Alive
    /\ procPc = "idle"
    /\ procPc' = "poll"
    /\ UNCHANGED <<skipped, calVars, simVars, srcPc, shutPc, netLoop, connected, data_queue, raw,
                   calibrated, procErr, csv, cycleLog, ensureCalls, enq, deq>>

\* raw = data_queue.get(); calibrated = convert_values(raw).  get() blocks
\* while the queue is empty; an exception of convert_values is not caught
\* and ends the thread.
ProcGet ==
    /\ Alive
    /\ procPc = "get"
    /\ ~queue_empty(data_queue)
    /\ LET g == queue_get(data_queue)
           c == convert_values(g.item.data)
       IN /\ data_queue' = g.rest
          /\ raw' = [g.item EXCEPT !.latest = Len(enq)]
          /\ deq' = Append(deq, g.item)
          /\ cycleLog' = <<>>
          /\ IF c.exc = "none"
             THEN /\ calibrated' = c.vals
                  /\ procPc' = "write"
                  /\ UNCHANGED procErr
             ELSE /\ procPc' = "dead"
                  /\ procErr' = c.exc
                  /\ UNCHANGED calibrated
    /\ UNCHANGED <<skipped, calVars, simVars, srcPc, shutPc, netLoop, connected, csv, ensureCalls, enq>>

\* write_csv(calibrated): open() or the write may raise OSError, which is
\* not caught and ends the thread
ProcWriteCsv ==
    /\ Alive
    /\ procPc = "write"
    /\ \E ok \in BOOLEAN :
          IF ok
          THEN /\ csv' = write_csv(csv, DataRow(calibrated, raw.id, raw.latest))
               /\ cycleLog' = Append(cycleLog, Effect("append", "ok"))
               /\ procPc' = "publish"
               /\ UNCHANGED procErr
          ELSE /\ procPc' = "dead"
               /\ procErr' = "OSError"
               /\ UNCHANGED <<csv, cycleLog>>
    /\ UNCHANGED <<skipped, calVars, simVars, srcPc, shutPc, netLoop, connected, data_queue, raw,
                   calibrated, ensureCalls, enq, deq>>

\* mqtt_client.publish(topic, ...), first half: if self.connected
PublishCheck(at, topic, next) ==
    /\ Alive
    /\ procPc = at
    /\ IF publish_sends(connected)
       THEN /\ procPc' = at \o "_send"
            /\ UNCHANGED cycleLog
       ELSE /\ cycleLog' = Append(cycleLog, Effect(topic, "skipped"))
            /\ procPc' = next
    /\ UNCHANGED <<skipped, calVars, simVars, srcPc, shutPc, netLoop, connected, data_queue, raw,
                   calibrated, procErr, csv, ensureCalls, enq, deq>>

\* second half: self.client.publish(topic, payload)
PublishSend(at, topic, next) ==
    /\ Alive
    /\ procPc = at \o "_send"
    /\ cycleLog' = Append(cycleLog, Effect(topic, "sent"))
    /\ procPc' = next
    /\ UNCHANGED <<skipped, calVars, simVars, srcPc, shutPc, netLoop, connected, data_queue, raw,
                   calibrated, procErr, csv, ensureCalls, enq, deq>>

ProcPublishCheck == PublishCheck("publish", "main", "heartbeat")
ProcPublishSend  == PublishSend("publish", "main", "heartbeat")
ProcHeartbeatCheck == PublishCheck("heartbeat", "hb", "sleep")
ProcHeartbeatSend  == PublishSend("heartbeat", "hb", "sleep")

\* time.sleep(PROCESS_INTERVAL), back to the top of the loop
ProcSleep ==
    /\ Alive
    /\ procPc = "sleep"
    /\ procPc' = "poll"
    /\ UNCHANGED <<skipped, calVars, simVars, srcPc, shutPc, netLoop, connected, data_queue, raw,
                   calibrated, procErr, csv, cycleLog, ensureCalls, enq, deq>>

-----------------------------------------------------------------------------
(* shutdown(sig, frame): registered at import, so it can run at any time *)

\* mqtt_client.client.loop_stop()
ShutdownBegin ==
    /\ shutPc = "running"
    /\ shutPc' = "stopping"
    /\ netLoop' = FALSE
    /\ UNCHANGED <<skipped, calVars, simVars, srcPc, procPc, connected, data_queue, raw, calibrated,
                   procErr, csv, cycleLog, ensureCalls, enq, deq>>

\* os._exit(0)
ShutdownExit ==
    /\ shutPc = "stopping"
    /\ shutPc' = "exited"
    /\ UNCHANGED <<skipped, calVars, simVars, srcPc, procPc, netLoop, connected, data_queue, raw,
                   calibrated, procErr, csv, cycleLog, ensureCalls, enq, deq>>

Next ==
    \/ MainStart
    \/ OnDisconnect
    \/ \E rc \in ConnackCodes : OnConnect(rc)
    \/ SerialOpen
    \/ SerialReadLine
    \/ ProcEnsureCsv
    \/ ProcPoll
    \/ ProcIdle
    \/ ProcGet
    \/ ProcWriteCsv
    \/ ProcPublishCheck
    \/ ProcPublishSend
    \/ ProcHeartbeatCheck
    \/ ProcHeartbeatSend
    \/ ProcSleep
    \/ ShutdownBegin
    \/ ShutdownExit

Spec == Init /\ [][Next]_vars

-----------------------------------------------------------------------------
(* Claims about the live pipeline *)

\* the data rows this run appended to the store
RunRows == {i \in 1..Len(csv.rows) :
               csv.rows[i].kind = "data" /\ csv.rows[i].src > 0}

\* C1: latest wins - every row persisted by a processing cycle is the
\* calibration of the snapshot that was the most recently enqueued one when
\* the cycle took its entry from the queue, and the cycle leaves nothing of
\* what was queued at that moment behind.
C1_LatestWins ==
    /\ \A i \in RunRows :
          /\ csv.rows[i].src = csv.rows[i].latest
          /\ csv.rows[i].vals =
                convert_values(enq[csv.rows[i].latest].data).vals
    /\ procPc \in {"write", "publish", "publish_send", "heartbeat",
                   "heartbeat_send", "sleep"}
          => \A j \in 1..Len(data_queue) : data_queue[j].id > raw.latest

\* C2: a failure of write_csv or of a publish call never ends the processor
\* loop - the thread is never dead because of a persistence fault.  (A
\* publish on a disconnected client is the "skipped" effect: it raises
\* nothing and the cycle goes on.)
C2_FailureIsolation ==
    ~(procPc = "dead" /\ procErr = "OSError")

\* the quantities computed from a channel that is absent or non-numeric
Unavailable(data) ==
    {q \in Quantities :
        \/ ChannelOf(q) \notin DOMAIN data
        \/ calibrate(data[ChannelOf(q)]) = None}

\* C3: convert_values raises nothing - for every snapshot the reader has
\* handed over, it returns a reading, and the quantities of an absent or
\* non-numeric channel carry the unavailable value None, which is no
\* reading (0 is one).
C3_NoExceptionEscapes ==
    \A i \in 1..Len(enq) :
        LET c == convert_values(enq[i].data) IN
        /\ c.exc = "none"
        /\ \A q \in Unavailable(enq[i].data) : c.vals[q] = None

\* a flat mapping of all the fixed channel names to numbers
WellFormed(data) ==
    /\ Channels \subseteq DOMAIN data
    /\ \A c \in Channels : data[c].t \in {"int", "float"}

\* C4: every entry in the queue is a flat mapping of all the fixed channel
\* names to numeric values.
C4_QueueEntriesWellFormed ==
    \A i \in 1..Len(data_queue) : WellFormed(data_queue[i].data)

\* C5: the queue hands entries over in order, exactly once - what has been
\* enqueued is what has been dequeued followed by what is still queued, so
\* the dequeued sequence is a prefix of the enqueued one and nothing is
\* lost, duplicated, reordered or dropped by the reader.
C5_QueueHandOff ==
    /\ enq = deq \o data_queue
    /\ \A i \in 1..Len(enq) : enq[i].id = i

\* two entries were enqueued, the processor has taken the first while the
\* second is still queued
C5_Witness ==
    /\ Len(enq) = 2
    /\ Len(deq) = 1
    /\ Len(data_queue) = 1
    /\ deq[1].data # data_queue[1].data

\* C6: a message is handed to the transport only while connected is true.
C6_PublishGating ==
    \A i \in 1..Len(cycleLog) :
        cycleLog[i].out = "sent" => cycleLog[i].conn

\* the kinds of effect of the current cycle, in order
CycleEvents == [i \in 1..Len(cycleLog) |-> cycleLog[i].ev]

\* a publish step of the processor: either half of either publish call
PublishStep ==
    \/ ProcPublishCheck
    \/ ProcPublishSend
    \/ ProcHeartbeatCheck
    \/ ProcHeartbeatSend

\* C7: connected is false initially, becomes true only in a connect callback
\* with rc = 0, is false after a connect callback with another rc and after
\* every disconnect callback, changes in no other step (not in start, not
\* in publish), and a publish call that finds it false drops the message.
C7_ConnectedTransitions ==
    /\ ~connected
    /\ [][ /\ (~connected /\ connected') => OnConnect(0)
           /\ OnConnect(0) => connected'
           /\ (\E rc \in ConnackCodes \ {0} : OnConnect(rc)) => ~connected'
           /\ OnDisconnect => ~connected'
           /\ (MainStart \/ PublishStep) => connected' = connected
           /\ connected' # connected =>
                 (\E rc \in ConnackCodes : OnConnect(rc)) \/ OnDisconnect
           /\ (PublishStep /\ ~connected /\ procPc \in {"publish", "heartbeat"})
                 => /\ Len(cycleLog') = Len(cycleLog) + 1
                    /\ cycleLog'[Len(cycleLog')].out = "skipped"
         ]_vars

\* in one cycle the main payload was sent (the connect callback had reported
\* success), then the disconnect callback ran, and the heartbeat publish
\* found the flag false and dropped its message
C7_Witness ==
    /\ Len(cycleLog) = 3
    /\ cycleLog[2].ev = "main" /\ cycleLog[2].out = "sent" /\ cycleLog[2].conn
    /\ cycleLog[3].ev = "hb" /\ cycleLog[3].out = "skipped"
    /\ ~connected

\* C8: a cycle that has dequeued an entry and has come to its end (its
\* sleep, or the end of the thread) has performed one append, then one
\* main-topic publish attempt, then one heartbeat publish attempt.
C8_PerCycleEffects ==
    procPc \in {"sleep", "dead"} => CycleEvents = <<"append", "main", "hb">>

\* snapshots enqueued by the reader of which no row has been appended
Unpersisted ==
    {i \in 1..Len(enq) : \A j \in RunRows : csv.rows[j].src # i}

\* C9: when the shutdown handler starts, at most one acquired snapshot is
\* not persisted; once it has exited the process nothing is appended or
\* published.
C9_ShutdownLossBound ==
    [][ /\ (shutPc = "running" /\ shutPc' = "stopping")
              => Cardinality(Unpersisted) <= 1
        /\ shutPc = "exited" => UNCHANGED <<csv, cycleLog>>
      ]_vars

-----------------------------------------------------------------------------
(* The store alone: runs of the program that call ensure_csv at their start *)
(* and append rows, over a store that outlives them                         *)

InitCsv ==
    /\ srcPc = "init"
    /\ procPc = "start"
    /\ shutPc = "running"
    /\ netLoop = FALSE
    /\ connected = FALSE
    /\ data_queue = <<>>
    /\ raw = NoEntry
    /\ calibrated = NoVals
    /\ procErr = "none"
    /\ csv \in InitialStores
    /\ cycleLog = <<>>
    /\ ensureCalls = 0
    /\ enq = <<>>
    /\ deq = <<>>
    /\ skipped = FALSE
    /\ CalIdle
    /\ SimIdle

\* data_processor calls ensure_csv when it starts
CsvEnsure ==
    /\ ensureCalls < MaxEnsure
    /\ ProcEnsureCsv

\* a processing cycle appends the calibration of a snapshot
CsvAppend ==
    /\ procPc = "poll"
    /\ Len(csv.rows) <= MaxRows
    /\ \E s \in {SnapA, SnapB} :
          csv' = write_csv(csv,
                     DataRow(convert_values(json_loads(ObjectLine(s)).val).vals,
                             0, 0))
    /\ UNCHANGED <<skipped, calVars, simVars, srcPc, procPc, shutPc, netLoop, connected, data_queue, raw,
                   calibrated, procErr, cycleLog, ensureCalls, enq, deq>>

\* the process ends and the program is started again
CsvRestart ==
    /\ procPc = "poll"
    /\ procPc' = "start"
    /\ UNCHANGED <<skipped, calVars, simVars, srcPc, shutPc, netLoop, connected, data_queue, raw,
                   calibrated, procErr, csv, cycleLog, ensureCalls, enq, deq>>

NextCsv ==
    \/ CsvEnsure
    \/ CsvAppend
    \/ CsvRestart

SpecCsv == InitCsv /\ [][NextCsv]_vars

HeaderRows == {i \in 1..Len(csv.rows) : csv.rows[i].kind = "header"}

\* C10: ensure_csv is idempotent - once it has been called the store exists
\* and holds exactly one header row, its first row; a call keeps every row
\* already in the store in place, and writes the header exactly when the
\* store did not exist.
C10_EnsureCsvIdempotent ==
    /\ [](ensureCalls > 0 =>
             /\ csv.exists
             /\ HeaderRows = {1})
    /\ [][ ensureCalls' = ensureCalls + 1 =>
             /\ Len(csv'.rows) >= Len(csv.rows)
             /\ \A i \in 1..Len(csv.rows) : csv'.rows[i] = csv.rows[i]
             /\ (csv'.rows # csv.rows) <=> ~csv.exists
             /\ ~csv.exists => csv'.rows = <<HeaderRow>>
         ]_vars

\* ensure_csv has been called three times, over a store that did not exist
\* at the first call, and rows were appended before a later call
C10_Witness ==
    /\ ensureCalls = 3
    /\ procPc = "poll"
    /\ Len(csv.rows) >= 3
    /\ csv.rows[1].kind = "header"
    /\ \A i \in 2..Len(csv.rows) : csv.rows[i] # OldRow

-----------------------------------------------------------------------------
(* The calibration functions alone: calibrate and convert_values applied to *)
(* the snapshot A with one channel replaced                                 *)

RawLo == 0 - RawMargin
RawHi == ADC_MAX + RawMargin

\* values a channel is set to directly: the ends of the integer range, the
\* ends of the ADC range, and values that are not integers
CalValues ==
    {IntV(RawLo), IntV(0), IntV(ADC_MAX), StrV, NullV, NumStrV(93),
     FloatV(10250), FloatV(-250)}

CalInit ==
    /\ srcPc = "init"
    /\ procPc = "init"
    /\ shutPc = "running"
    /\ netLoop = FALSE
    /\ connected = FALSE
    /\ data_queue = <<>>
    /\ raw = NoEntry
    /\ calibrated = NoVals
    /\ procErr = "none"
    /\ csv = NoFile
    /\ cycleLog = <<>>
    /\ ensureCalls = 0
    /\ enq = <<>>
    /\ deq = <<>>
    /\ skipped = FALSE
    /\ CalIdle
    /\ SimIdle

LiveVars == <<srcPc, procPc, shutPc, netLoop, connected, data_queue, raw,
              calibrated, procErr, csv, cycleLog, ensureCalls, enq, deq,
              skipped>>

\* calibrate and convert_values applied to snapshot snap, channel c
CalApply(snap, c) ==
    /\ calSnap' = snap
    /\ calChan' = c
    /\ calOut' = calibrate(snap[c])
    /\ calReading' = convert_values(snap)
    /\ UNCHANGED <<LiveVars, simVars>>

\* the snapshot A with channel c set to x (or left as it is in A)
CalSet ==
    \E c \in Channels :
        \E x \in CalValues \cup {BaseSnap[c]} :
            CalApply([BaseSnap EXCEPT ![c] = x], c)

\* the integer of the channel set last, raised by one
CalIncrement ==
    /\ calSnap[calChan].t = "int"
    /\ calSnap[calChan].v < RawHi
    /\ CalApply([calSnap EXCEPT ![calChan] = IntV(calSnap[calChan].v + 1)],
                calChan)

CalNext ==
    \/ CalSet
    \/ CalIncrement

SpecCal == CalInit /\ [][CalNext]_vars

Min(a, b) == IF a <= b THEN a ELSE b
Max(a, b) == IF a >= b THEN a ELSE b
Abs(a) == IF a >= 0 THEN a ELSE 0 - a

\* the quantities computed from channel c
QuantitiesOf(c) == {q \in Quantities : ChannelOf(q) = c}

\* C13: calibrate clamps - for an integer r it returns min(max(r, 0), 1023),
\* an integer of 0..1023 and the same as calibrate of the clamped r; for a
\* non-numeric input it returns None; and when the integer of a channel
\* grows, calibrate and every quantity computed from that channel do not
\* decrease.
C13_CalibrateClamps ==
    /\ [](LET x == calSnap[calChan] IN
          /\ x.t = "int" =>
                /\ calOut = Min(Max(x.v, 0), ADC_MAX)
                /\ calOut \in 0..ADC_MAX
                /\ calOut = calibrate(IntV(Min(Max(x.v, 0), ADC_MAX)))
          /\ x.t \in {"str", "null"} => calOut = None)
    /\ [][ ( /\ calChan' = calChan
             /\ calSnap[calChan].t = "int"
             /\ calSnap'[calChan].t = "int"
             /\ calSnap[calChan].v <= calSnap'[calChan].v )
           => /\ calOut <= calOut'
              /\ calReading.exc = "none" /\ calReading'.exc = "none"
              /\ \A q \in QuantitiesOf(calChan) :
                    calReading.vals[q] <= calReading'.vals[q]
         ]_vars

\* a channel has been raised step by step to the top of the integer range,
\* above the ADC range, and calibrate returned 1023
C13_Witness ==
    /\ calSnap[calChan] = IntV(RawHi)
    /\ calOut = ADC_MAX

\* the scenario of the specification: snapshot A
ScenarioClaimed ==
    [q \in Quantities |->
        CASE q = "Temperature"          -> 3421
          [] q = "Humidity"             -> 6843
          [] q = "CO2"                  -> 58612
          [] q = "Oxygen"               -> 1051
          [] q = "UV Index"             -> 100
          [] q = "Solar Radiation"      -> 99609
          [] q = "Air Quality"          -> 4888
          [] q = "GSR"                  -> 8301
          [] q = "Atmospheric Pressure" -> 49976]

ScenarioComputed ==
    [q \in Quantities |->
        CASE q = "Temperature"          -> 3421
          [] q = "Humidity"             -> 6843
          [] q = "CO2"                  -> 58651
          [] q = "Oxygen"               -> 1051
          [] q = "UV Index"             -> 100
          [] q = "Solar Radiation"      -> 99707
          [] q = "Air Quality"          -> 4888
          [] q = "GSR"                  -> 8309
          [] q = "Atmospheric Pressure" -> 50000]

\* C14 as stated: convert_values of snapshot A yields Temperature 34.21,
\* Humidity 68.43, CO2 586.12, Oxygen 10.51, UV Index 1.0, Solar Radiation
\* 996.09, Air Quality 48.88, GSR 83.01, Atmospheric Pressure 499.76.
C14_ScenarioAsClaimed ==
    calSnap = BaseSnap =>
        /\ calReading.exc = "none"
        /\ calReading.vals = ScenarioClaimed

\* C14 amended: convert_values of snapshot A yields Temperature 34.21,
\* Humidity 68.43, CO2 586.51, Oxygen 10.51, UV Index 1.0, Solar Radiation
\* 997.07, Air Quality 48.88, GSR 83.09, Atmospheric Pressure 500.0, each
\* the hundredth nearest to (clamped raw / 1023) * channel maximum.
C14_Scenario ==
    calSnap = BaseSnap =>
        /\ calReading.exc = "none"
        /\ calReading.vals = ScenarioComputed
        /\ \A q \in Quantities :
              2 * Abs(calReading.vals[q] * ADC_MAX
                      - BaseSnap[ChannelOf(q)].v * ScaleOf(q) * 100)
                 <= ADC_MAX

\* convert_values has been applied to snapshot A, set back from another one
C14_Witness ==
    /\ calSnap = BaseSnap
    /\ calChan = "co2"
    /\ calReading.exc = "none"

\* C17: Solar Radiation and GSR are both computed from the clamped solar
\* channel, on the scales 1200 and 100, so that they differ from the ratio
\* 12 by at most 0.065 (6.5 hundredths); and a step that leaves the solar
\* channel as it is leaves both as they are.
C17_SolarGsrShareChannel ==
    /\ [](calReading.exc = "none" =>
             LET solar == calibrate(calSnap["solar"])
                 S == calReading.vals["Solar Radiation"]
                 G == calReading.vals["GSR"]
             IN /\ S = Scale(solar, 1200)
                /\ G = Scale(solar, 100)
                /\ 2 * Abs(S - 12 * G) <= 13)
    /\ [][ ( /\ calSnap'["solar"] = calSnap["solar"]
             /\ calReading.exc = "none"
             /\ calReading'.exc = "none" )
           => /\ calReading'.vals["Solar Radiation"]
                    = calReading.vals["Solar Radiation"]
              /\ calReading'.vals["GSR"] = calReading.vals["GSR"]
         ]_vars

\* a solar value for which the two rounded outputs are 0.06 apart from the
\* ratio 12, computed after another channel had been changed
C17_Witness ==
    /\ calChan = "solar"
    /\ calReading.exc = "none"
    /\ Abs(calReading.vals["Solar Radiation"] - 12 * calReading.vals["GSR"]) = 6

-----------------------------------------------------------------------------
(* More claims about the live pipeline *)

\* a line the reader has to skip: empty, without the brackets, or not JSON
Rejected(line) ==
    \/ line = <<>>
    \/ ~startswith_brace(line)
    \/ ~endswith_brace(line)
    \/ json_loads(line).exc # "none"

RejectedLines == { line \in Lines : Rejected(line) }

\* C12: once the transport is open, a line that is empty, fails the bracket
\* check or fails to parse puts nothing on the queue and leaves the reader
\* in its loop; the reader never leaves the loop.
C12_TransportFaultsNotFatal ==
    [][ /\ srcPc = "read" => srcPc' = "read"
        /\ \A line \in RejectedLines :
              SerialRead(line) => /\ UNCHANGED <<data_queue, enq>>
                                  /\ srcPc' = "read"
      ]_vars

\* the reader has skipped a line, has enqueued a snapshot and is still in
\* its loop
C12_Witness ==
    /\ skipped
    /\ srcPc = "read"
    /\ Len(enq) >= 1

\* C16: when the transport cannot be opened the reader ends without ever
\* enqueuing; the step that ends it leaves the processor, the network loop
\* and the controller as they are, and from then on the processor is in
\* its empty-queue wait, alive, with nothing appended and nothing published.
C16_StartupFaultIsolation ==
    /\ [](srcPc = "done" =>
             /\ enq = <<>>
             /\ data_queue = <<>>
             /\ procPc \in {"start", "poll", "idle"}
             /\ procErr = "none"
             /\ RunRows = {}
             /\ cycleLog = <<>>)
    /\ [][ (srcPc = "open" /\ srcPc' = "done")
              => UNCHANGED <<procPc, netLoop, connected, shutPc>>
         ]_vars

\* the transport could not be opened; the processor has initialised the
\* store and waits on the empty queue while the client is connected
C16_Witness ==
    /\ srcPc = "done"
    /\ procPc = "idle"
    /\ csv.exists
    /\ netLoop
    /\ connected
    /\ shutPc = "running"

-----------------------------------------------------------------------------
(* The live pipeline under a fair scheduler *)

\* a step of the data_processor thread
ProcStep ==
    \/ ProcEnsureCsv
    \/ ProcPoll
    \/ ProcIdle
    \/ ProcGet
    \/ ProcWriteCsv
    \/ ProcPublishCheck
    \/ ProcPublishSend
    \/ ProcHeartbeatCheck
    \/ ProcHeartbeatSend
    \/ ProcSleep

\* the data_processor thread, once started, is scheduled again and again:
\* none of its steps waits for another thread except get(), and time.sleep
\* returns
\* A run without faults from outside: the process is not signalled, the
\* broker accepts the connection and the connection is not lost.
RunNext ==
    \/ MainStart
    \/ OnConnect(0)
    \/ SerialOpen
    \/ SerialReadLine
    \/ ProcStep

SpecFair == Init /\ [][RunNext]_vars /\ WF_vars(ProcStep)

\* the data_processor thread has ended on an exception, or the process has
\* exited
Faulted == procPc = "dead" \/ shutPc = "exited"

\* the data rows of this run computed from entry number i
RowsOf(i) == {k \in RunRows : csv.rows[k].src = i}

\* C20: get() is only called on a non-empty queue (the processor is the
\* only consumer, the reader only adds), so it never blocks; the store is
\* initialised by ensure_csv before any row is written; and under a fair
\* scheduler every enqueued entry is dequeued and appended as exactly one
\* row, unless the processor thread or the process ends first.
C20_NeverBlocksAndDrains ==
    /\ [](procPc = "get" => ~queue_empty(data_queue))
    /\ [](procPc \notin {"init", "start"} => ensureCalls >= 1 /\ csv.exists)
    /\ [](RunRows # {} => /\ ensureCalls >= 1
                          /\ csv.rows[1].kind = "header")
    /\ [](\A i \in 1..MaxEnq : Cardinality(RowsOf(i)) <= 1)
    /\ [][ (procPc = "write" /\ procPc' = "publish")
              => /\ ensureCalls >= 1
                 /\ csv.exists
                 /\ raw.id = deq[Len(deq)].id
                 /\ csv'.rows = Append(csv.rows,
                        DataRow(calibrated, raw.id, raw.latest))
         ]_vars
    /\ \A i \in 1..MaxEnq :
          (Len(enq) >= i) ~>
              (\/ Faulted
               \/ /\ Len(deq) >= i
                  /\ deq[i].id = i
                  /\ Cardinality(RowsOf(i)) = 1)

\* both entries of a run were enqueued while the first was being processed
\* and each has its row
C20_Witness ==
    /\ Len(enq) = MaxEnq
    /\ \A i \in 1..MaxEnq : Cardinality(RowsOf(i)) = 1
    /\ ~Faulted

-----------------------------------------------------------------------------
(* The simulated pipeline (src/tempCodeRunnerFile.py)                       *)
(*  - a sensor value is an integer in hundredths, None when unavailable;   *)
(*  - the timestamp of an entry (datetime.now() at put) is the ordinal of  *)
(*    the put: consecutive puts are separated by sleep(READ_INTERVAL);     *)
(*  - simEnq and simDropped are history values.                            *)

MAX_RETRIES == 3

\* limits in hundredths
THRESHOLDS ==
    ( "Temperature (°C" :> 3000 @@
      "CO2 (ppm)" :> 100000 @@
      "Air Quality (AQI)" :> 20000 )

\* sensors: the names, in list order
sensors ==
    << "Temperature (°C)", "Humidity (%)", "CO2 (ppm)", "Oxygen (O2 %)",
       "UV Index", "Solar Radiation (W/m²)", "Air Quality (AQI)", "GSR",
       "Atmospheric Pressure (hPa)" >>

SensorNames == {sensors[i] : i \in 1..Len(sensors)}

\* values of the read functions' ranges that the model draws
ReadValues(name) ==
    CASE name = "Temperature (°C)"           -> {3500}
      [] name = "Humidity (%)"               -> {6000}
      [] name = "CO2 (ppm)"                  -> {150000}
      [] name = "Oxygen (O2 %)"              -> {2050}
      [] name = "UV Index"                   -> {500}
      [] name = "Solar Radiation (W/m²)"     -> {50000}
      [] name = "Air Quality (AQI)"          -> {15000}
      [] name = "GSR"                        -> {5000}
      [] name = "Atmospheric Pressure (hPa)" -> {100000}

\* the sensors whose read function may return None or raise
FaultySensors == {"CO2 (ppm)", "GSR"}

Value(v)  == [kind |-> "value", v |-> v]
Nothing   == [kind |-> "none", v |-> None]       \* read_func returned None
Raised    == [kind |-> "raise", v |-> None]      \* read_func raised

\* outcomes of one call of the read function of a sensor
ReadOutcomes(name) ==
    {Value(v) : v \in ReadValues(name)}
        \cup (IF name \in FaultySensors THEN {Nothing, Raised} ELSE {})

AllOutcomes == UNION {ReadOutcomes(n) : n \in SensorNames}

\* a Sensor.read that gives up at the first failed attempt
read_step_no_retry(try, o) ==
    IF o.kind = "value"
    THEN [ret |-> TRUE, value |-> o.v]
    ELSE [ret |-> TRUE, value |-> None]

\* one iteration of the for loop of Sensor.read, try iterations done before
\* it, the call of read_func ending as o: [ret, value]; ret = FALSE when
\* the loop goes on
read_step(try, o) ==
    IF o.kind = "value"
    THEN [ret |-> TRUE, value |-> o.v]
    ELSE IF try + 1 < MAX_RETRIES
         THEN [ret |-> FALSE, value |-> None]
         ELSE [ret |-> TRUE, value |-> None]

\* a check_threshold without the test for None
check_threshold_no_none_test(sensor_name, value) ==
    IF sensor_name \in DOMAIN THRESHOLDS /\ value > THRESHOLDS[sensor_name]
    THEN "ALERT"
    ELSE "Normal"

check_threshold(sensor_name, value) ==
    IF value = None THEN "ERROR"
    ELSE IF sensor_name \in DOMAIN THRESHOLDS
            /\ value > THRESHOLDS[sensor_name]
         THEN "ALERT"
         ELSE "Normal"

\* a processor that takes the first entry of the batch
latest_of_first(batch) == batch[1]

\* batch[-1]
latest_of(batch) == batch[Len(batch)]

\* json.dumps(latest_data): None becomes null
json_dumps(d) ==
    [n \in DOMAIN d |-> IF d[n] = None THEN NullV ELSE FloatV(d[n])]

\* csv.writer writes None as the empty string
csv_cell(v) == IF v = None THEN StrV ELSE FloatV(v)

SimHeaderRow == [kind |-> "header", ts |-> 0, cells |-> sensors]

\* [timestamp] + [latest_data[s.name] for s in sensors]
SimDataRow(ts, d) ==
    [kind |-> "data", ts |-> ts,
     cells |-> [i \in 1..Len(sensors) |-> csv_cell(d[sensors[i]])]]

\* CSV_FILE before the program starts: absent, or left by an earlier run
SimInitialStores == {NoFile, [exists |-> TRUE, rows |-> <<SimHeaderRow>>]}

LiveIdle ==
    /\ srcPc = "init"
    /\ procPc = "init"
    /\ shutPc = "running"
    /\ netLoop = FALSE
    /\ connected = FALSE
    /\ data_queue = <<>>
    /\ raw = NoEntry
    /\ calibrated = NoVals
    /\ procErr = "none"
    /\ csv = NoFile
    /\ cycleLog = <<>>
    /\ ensureCalls = 0
    /\ enq = <<>>
    /\ deq = <<>>
    /\ skipped = FALSE

SimInit ==
    /\ LiveIdle
    /\ CalIdle
    /\ simMain = "import"
    /\ simCsv \in SimInitialStores
    /\ simRdPc = "off"
    /\ simIdx = 0
    /\ simTry = 0
    /\ simSnap = EmptyDict
    /\ simQueue = <<>>
    /\ simEnq = <<>>
    /\ simProcPc = "off"
    /\ simBatch = <<>>
    /\ simVerdicts = EmptyDict
    /\ simPublished = <<>>
    /\ simDropped = {}

\* client.connect(BROKER, 1883, 60) at import: a refused connection raises
\* and the program ends before its main block
SimConnect ==
    /\ simMain = "import"
    /\ \E ok \in BOOLEAN : simMain' = IF ok THEN "loaded" ELSE "failed"
    /\ UNCHANGED <<LiveVars, calVars, simCsv, simRdPc, simIdx, simTry,
                   simSnap, simQueue, simEnq, simProcPc, simBatch,
                   simVerdicts, simPublished, simDropped>>

\* the main block: the header is written when open(.., "x") creates the
\* file, then both threads are started
SimMain ==
    /\ simMain = "loaded"
    /\ simMain' = "running"
    /\ simCsv' = IF simCsv.exists THEN simCsv
                 ELSE [exists |-> TRUE, rows |-> <<SimHeaderRow>>]
    /\ simRdPc' = "read"
    /\ simProcPc' = "drain"
    /\ UNCHANGED <<LiveVars, calVars, simIdx, simTry, simSnap, simQueue,
                   simEnq, simBatch, simVerdicts, simPublished, simDropped>>

\* sensor_reader: one call of read_func inside Sensor.read of the next
\* sensor of the comprehension, ending as o
SimAttempt(o) ==
    /\ simMain = "running"
    /\ simRdPc = "read"
    /\ simIdx < Len(sensors)
    /\ o \in ReadOutcomes(sensors[simIdx + 1])
    /\ LET r == read_step(simTry, o) IN
       IF r.ret
       THEN /\ simSnap' = (sensors[simIdx + 1] :> r.value) @@ simSnap
            /\ simIdx' = simIdx + 1
            /\ simTry' = 0
       ELSE /\ simTry' = simTry + 1
            /\ UNCHANGED <<simSnap, simIdx>>
    /\ UNCHANGED <<LiveVars, calVars, simMain, simCsv, simRdPc, simQueue,
                   simEnq, simProcPc, simBatch, simVerdicts, simPublished,
                   simDropped>>

SimSensorRead == \E o \in AllOutcomes : SimAttempt(o)

\* data_queue.put((datetime.now(), snapshot))
SimPut ==
    /\ simMain = "running"
    /\ simRdPc = "read"
    /\ simIdx = Len(sensors)
    /\ LET e == [ts |-> Len(simEnq) + 1, data |-> simSnap] IN
          /\ simQueue' = Append(simQueue, e)
          /\ simEnq' = Append(simEnq, e)
    /\ simRdPc' = "sleep"
    /\ simSnap' = EmptyDict
    /\ simIdx' = 0
    /\ UNCHANGED <<LiveVars, calVars, simMain, simCsv, simTry, simProcPc,
                   simBatch, simVerdicts, simPublished, simDropped>>

\* time.sleep(READ_INTERVAL) is over
SimReaderWake ==
    /\ simMain = "running"
    /\ simRdPc = "sleep"
    /\ Len(simEnq) < MaxSimEnq
    /\ simRdPc' = "read"
    /\ UNCHANGED <<LiveVars, calVars, simMain, simCsv, simIdx, simTry,
                   simSnap, simQueue, simEnq, simProcPc, simBatch,
                   simVerdicts, simPublished, simDropped>>

\* data_processor: one iteration of  while not data_queue.empty():
\* batch.append(data_queue.get()).  The processor is the only consumer, so
\* the entry seen by empty() is the one get() returns.
SimDrainGet ==
    /\ simMain = "running"
    /\ simProcPc = "drain"
    /\ simQueue # <<>>
    /\ simBatch' = Append(simBatch, Head(simQueue))
    /\ simQueue' = Tail(simQueue)
    /\ UNCHANGED <<LiveVars, calVars, simMain, simCsv, simRdPc, simIdx,
                   simTry, simSnap, simEnq, simProcPc, simVerdicts,
                   simPublished, simDropped>>

\* data_queue.empty() is true: the drain ends
SimDrainEnd ==
    /\ simMain = "running"
    /\ simProcPc = "drain"
    /\ simQueue = <<>>
    /\ IF simBatch = <<>>
       THEN /\ simProcPc' = "nap"
            /\ UNCHANGED simDropped
       ELSE /\ simProcPc' = "report"
            /\ simDropped' = simDropped \cup
                  {simBatch[i].ts : i \in 1..(Len(simBatch) - 1)}
    /\ UNCHANGED <<LiveVars, calVars, simMain, simCsv, simRdPc, simIdx,
                   simTry, simSnap, simQueue, simEnq, simBatch, simVerdicts,
                   simPublished>>

\* time.sleep(1) after an empty drain, then the loop starts again
SimNap ==
    /\ simMain = "running"
    /\ simProcPc = "nap"
    /\ simProcPc' = "drain"
    /\ UNCHANGED <<LiveVars, calVars, simMain, simCsv, simRdPc, simIdx,
                   simTry, simSnap, simQueue, simEnq, simBatch, simVerdicts,
                   simPublished, simDropped>>

\* the console report: one status per item of latest_data
SimReport ==
    /\ simMain = "running"
    /\ simProcPc = "report"
    /\ LET latest_data == latest_of(simBatch).data IN
          simVerdicts' = [n \in DOMAIN latest_data |->
                             check_threshold(n, latest_data[n])]
    /\ simProcPc' = "append"
    /\ UNCHANGED <<LiveVars, calVars, simMain, simCsv, simRdPc, simIdx,
                   simTry, simSnap, simQueue, simEnq, simBatch,
                   simPublished, simDropped>>

\* the CSV log: open(CSV_FILE, "a") and one writerow
SimAppend ==
    /\ simMain = "running"
    /\ simProcPc = "append"
    /\ LET e == latest_of(simBatch) IN
          simCsv' = [exists |-> TRUE,
                     rows |-> Append(simCsv.rows, SimDataRow(e.ts, e.data))]
    /\ simProcPc' = "publish"
    /\ UNCHANGED <<LiveVars, calVars, simMain, simRdPc, simIdx, simTry,
                   simSnap, simQueue, simEnq, simBatch, simVerdicts,
                   simPublished, simDropped>>

\* client.publish(TOPIC, json.dumps(latest_data))
SimPublish ==
    /\ simMain = "running"
    /\ simProcPc = "publish"
    /\ simPublished' =
          Append(simPublished, json_dumps(latest_of(simBatch).data))
    /\ simProcPc' = "sleep"
    /\ UNCHANGED <<LiveVars, calVars, simMain, simCsv, simRdPc, simIdx,
                   simTry, simSnap, simQueue, simEnq, simBatch, simVerdicts,
                   simDropped>>

\* time.sleep(PROCESS_INTERVAL) is over; the loop starts again with
\* batch = []
SimProcSleep ==
    /\ simMain = "running"
    /\ simProcPc = "sleep"
    /\ simProcPc' = "drain"
    /\ simBatch' = <<>>
    /\ UNCHANGED <<LiveVars, calVars, simMain, simCsv, simRdPc, simIdx,
                   simTry, simSnap, simQueue, simEnq, simVerdicts,
                   simPublished, simDropped>>

SimNext ==
    \/ SimConnect
    \/ SimMain
    \/ SimSensorRead
    \/ SimPut
    \/ SimReaderWake
    \/ SimDrainGet
    \/ SimDrainEnd
    \/ SimNap
    \/ SimReport
    \/ SimAppend
    \/ SimPublish
    \/ SimProcSleep

SpecSim == SimInit /\ [][SimNext]_vars

-----------------------------------------------------------------------------
(* Claims about the simulated pipeline *)

\* the data rows of the simulated store, in file order
SimDataRows == SelectSeq(simCsv.rows, LAMBDA r : r.kind = "data")

\* the console report of the current cycle has been printed
SimReported == simProcPc \in {"append", "publish", "sleep"}

\* C11: Sensor.read calls the read function at most MAX_RETRIES times; a
\* call that yields a value ends the read with that value (every earlier
\* call of the read failed), a failed call is followed by another call
\* while fewer than MAX_RETRIES calls were made, and None is returned only
\* by the failure of call number MAX_RETRIES; a failed channel does not end
\* the snapshot: every enqueued snapshot has all nine names, with None or a
\* value for each.
C11_BoundedRetry ==
    /\ [](simTry < MAX_RETRIES)
    /\ [](\A i \in 1..Len(simEnq) :
             /\ DOMAIN simEnq[i].data = SensorNames
             /\ Cardinality(DOMAIN simEnq[i].data) = 9
             /\ \A n \in SensorNames :
                   \/ simEnq[i].data[n] = None
                   \/ simEnq[i].data[n] \in ReadValues(n))
    /\ [][ \A o \in AllOutcomes :
             SimAttempt(o) =>
               LET name == sensors[simIdx + 1]
                   calls == simTry + 1
               IN /\ calls <= MAX_RETRIES
                  /\ o.kind = "value" =>
                        /\ simIdx' = simIdx + 1
                        /\ simSnap'[name] = o.v
                  /\ (o.kind # "value" /\ calls < MAX_RETRIES) =>
                        /\ simIdx' = simIdx
                        /\ simTry' = calls
                        /\ simSnap' = simSnap
                  /\ (o.kind # "value" /\ calls = MAX_RETRIES) =>
                        /\ simIdx' = simIdx + 1
                        /\ simSnap'[name] = None
                  /\ simIdx' = simIdx + 1 =>
                        /\ DOMAIN simSnap' = DOMAIN simSnap \cup {name}
                        /\ \A n \in DOMAIN simSnap : simSnap'[n] = simSnap[n]
         ]_vars

\* a snapshot with an unavailable channel was enqueued whole, and the read
\* of a channel is now at its last attempt after two failures
C11_Witness ==
    /\ \E i \in 1..Len(simEnq) :
          /\ simEnq[i].data["CO2 (ppm)"] = None
          /\ simEnq[i].data["GSR"] # None
    /\ \E i \in 1..Len(simEnq) : simEnq[i].data["GSR"] = None
    /\ simRdPc = "read"
    /\ simTry = MAX_RETRIES - 1

\* C15: check_threshold(name, None) is ERROR for every name, and in every
\* cycle the report gives ERROR to exactly the channels that are
\* unavailable in the snapshot it reports.
C15_UnavailableIsError ==
    /\ \A n \in SensorNames \cup DOMAIN THRESHOLDS :
          check_threshold(n, None) = "ERROR"
    /\ SimReported =>
          LET d == simBatch[Len(simBatch)].data IN
             /\ DOMAIN simVerdicts = DOMAIN d
             /\ \A n \in DOMAIN d :
                   /\ d[n] = None => simVerdicts[n] = "ERROR"
                   /\ d[n] # None => simVerdicts[n] \in {"Normal", "ALERT"}

\* a cycle has reported a snapshot whose CO2 channel is unavailable
C15_Witness ==
    /\ SimReported
    /\ simBatch[Len(simBatch)].data["CO2 (ppm)"] = None
    /\ simVerdicts["CO2 (ppm)"] = "ERROR"
    /\ simVerdicts["GSR"] = "Normal"

\* C18: the drain takes entries oldest first and ends on an empty queue;
\* the row appended and the payload published in a cycle are those of the
\* last entry of the drain; an entry dequeued before the last of its drain
\* is never persisted; the timestamps of the persisted rows are strictly
\* increasing.
C18_CoalescingDrain ==
    /\ [][ /\ (simProcPc = "drain" /\ simBatch' # simBatch
                 /\ simProcPc' = "drain") =>
                 /\ simQueue # <<>>
                 /\ simBatch' = Append(simBatch, Head(simQueue))
           /\ (simProcPc = "drain" /\ simProcPc' = "report") =>
                 /\ simQueue = <<>>
                 /\ simBatch' = simBatch
           /\ (simProcPc = "append" /\ simProcPc' = "publish") =>
                 LET e == simBatch[Len(simBatch)] IN
                    /\ simCsv'.rows =
                          Append(simCsv.rows, SimDataRow(e.ts, e.data))
                    /\ e = simEnq[e.ts]
           /\ (simProcPc = "publish" /\ simProcPc' = "sleep") =>
                 LET e == simBatch[Len(simBatch)] IN
                    simPublished' = Append(simPublished, json_dumps(e.data))
         ]_vars
    /\ [](\A i \in 1..Len(SimDataRows) :
             /\ SimDataRows[i].ts \notin simDropped
             /\ \A j \in 1..Len(SimDataRows) :
                   i < j => SimDataRows[i].ts < SimDataRows[j].ts)

\* two cycles have persisted a row each and an older entry of a drain was
\* discarded
C18_Witness ==
    /\ Len(SimDataRows) >= 2
    /\ simDropped # {}
    /\ Len(simPublished) >= 2

\* the quantities the threshold table is about, with their limits
ThresholdedSensors ==
    ( "Temperature (°C)" :> 3000 @@
      "CO2 (ppm)" :> 100000 @@
      "Air Quality (AQI)" :> 20000 )

\* C19: every key of THRESHOLDS is a name passed to check_threshold, and in
\* every report a thresholded quantity that is present has ALERT exactly
\* when its value is above its limit and Normal otherwise.
C19_ThresholdsKeyedByNames ==
    SimReported =>
       LET d == simBatch[Len(simBatch)].data IN
          /\ DOMAIN THRESHOLDS \subseteq DOMAIN simVerdicts
          /\ \A n \in DOMAIN ThresholdedSensors :
                d[n] # None =>
                   simVerdicts[n] = IF d[n] > ThresholdedSensors[n]
                                    THEN "ALERT" ELSE "Normal"

====
